---- MODULE Spec2Model ----
(***************************************************************************)
(* Cache lifecycle of the geocoin game: the grid, the memento codec, the   *)
(* CacheManager's active/dormant maps, the rectangles on the map, and the  *)
(* snapshot kept in localStorage.                                          *)
(*                                                                         *)
(* Units.  A position is a pair of integers counted in half tiles, so      *)
(* that getCellForPoint is a proper floor division; luck values are        *)
(* counted in hundredths.  A string is a sequence of tokens.               *)
(***************************************************************************)
EXTENDS Integers, Sequences, FiniteSets

VARIABLES
    playerPosition,   \* leaflet.LatLng of the player
    playerCoins,      \* the inventory count (meaningful when coinsKind = "number")
    coinsKind,        \* JavaScript kind of playerCoins: number, undefined, NaN, null
    movementHistory,  \* the trail, a sequence of positions
    activeCaches,     \* CacheManager.activeCaches: key -> Cache
    cacheStates,      \* CacheManager.cacheStates: key -> memento
    layers,           \* the Rectangle layers on the map, in insertion order
    storage,          \* localStorage item "gameState"
    sensorPending,    \* geolocation requests whose callback has not fired
    resets,           \* confirmed resets so far (bounds the model only)
    lastOp,           \* the handler that ran last
    board,            \* Board.knownCells: key -> Cell object (a Board on its own)
    returned          \* what the functions called on their own (Board's lookups,
                      \* the key functions) have returned, in order

vars == <<playerPosition, playerCoins, coinsKind, movementHistory, activeCaches,
          cacheStates, layers, storage, sensorPending, resets, lastOp,
          board, returned>>

(***************************************************************************)
(* Bounds of the model.                                                    *)
(***************************************************************************)
MaxOffset == 1     \* button moves keep the player this many cells from the start cell
MaxHistory == 2    \* button moves stop when the trail has this many points
MaxCoins == 2      \* most coins the inventory, or a cache by deposits, is taken to
MaxPending == 1    \* outstanding geolocation requests
MaxResets == 1     \* confirmed resets in one run of the model
MaxCodecLen == 2   \* longest coin list given to the memento codec on its own
MaxSerial == 2     \* largest coin serial given to the memento codec on its own
MaxCalls == 4      \* calls made to a Board on its own
MaxKeyCalls == 2   \* calls made to getCellKey and getCellFromKey on their own

(***************************************************************************)
(* Program constants.                                                      *)
(***************************************************************************)
TILE_DEGREES == 2
NEIGHBORHOOD_SIZE == 8
CACHE_SPAWN_PROBABILITY == 10
MOVEMENT_STEP == TILE_DEGREES
NULL_ISLAND == [lat |-> 0, lng |-> 0]
OAKES_CLASSROOM == [lat |-> 41, lng |-> -41]
INITIAL_LAT == OAKES_CLASSROOM.lat
INITIAL_LNG == OAKES_CLASSROOM.lng

latLng(lat, lng) == [lat |-> lat, lng |-> lng]

(***************************************************************************)
(* Strings: template literals, split and Number.                           *)
(***************************************************************************)
DigitChars == <<"0", "1", "2", "3", "4", "5", "6", "7", "8", "9">>

RECURSIVE NatToString(_)
NatToString(n) ==
    IF n < 10 THEN <<DigitChars[n + 1]>>
    ELSE NatToString(n \div 10) \o <<DigitChars[(n % 10) + 1]>>

NumberToString(n) == IF n < 0 THEN <<"-">> \o NatToString(-n) ELSE NatToString(n)

DigitValue(ch) == CHOOSE d \in 0..9 : DigitChars[d + 1] = ch

RECURSIVE DigitsToNat(_)
DigitsToNat(s) ==
    IF Len(s) = 0 THEN 0
    ELSE 10 * DigitsToNat(SubSeq(s, 1, Len(s) - 1)) + DigitValue(s[Len(s)])

\* Number had it read the digits and dropped the sign
Number_unsigned(s) == IF Len(s) > 0 /\ s[1] = "-" THEN DigitsToNat(Tail(s)) ELSE DigitsToNat(s)

\* Number(s) for the decimal integers the program writes
Number(s) == IF Len(s) > 0 /\ s[1] = "-" THEN -DigitsToNat(Tail(s)) ELSE DigitsToNat(s)

\* s.split(",") for a string holding one comma
SplitComma(s) ==
    LET p == CHOOSE k \in 1..Len(s) : s[k] = "," /\ \A m \in 1..(k - 1) : s[m] # ","
    IN  <<SubSeq(s, 1, p - 1), SubSeq(s, p + 1, Len(s))>>

getCellKey(cell) == NumberToString(cell.i) \o <<",">> \o NumberToString(cell.j)

getCellFromKey(key) ==
    LET parts == SplitComma(key)
    IN  [i |-> Number(parts[1]), j |-> Number(parts[2])]

(***************************************************************************)
(* Cache and its memento.  JSON.stringify({cell, coins}) is the token      *)
(* sequence  i, j, n, then for each coin its cell.i, cell.j and serial.    *)
(***************************************************************************)
NewCache(cell, coins) == [cell |-> cell, coins |-> coins]

RECURSIVE StringifyCoins(_)
StringifyCoins(coins) ==
    IF Len(coins) = 0 THEN <<>>
    ELSE <<Head(coins).cell.i, Head(coins).cell.j, Head(coins).serial>>
         \o StringifyCoins(Tail(coins))

\* toMomento had it written the cell as (j, i)
toMomento_transposed(cache) ==
    <<cache.cell.j, cache.cell.i, Len(cache.coins)>> \o StringifyCoins(cache.coins)

toMomento(cache) ==
    <<cache.cell.i, cache.cell.j, Len(cache.coins)>> \o StringifyCoins(cache.coins)

ParseCoins(m) ==
    [k \in 1..m[3] |->
        [cell |-> [i |-> m[3 * k + 1], j |-> m[3 * k + 2]], serial |-> m[3 * k + 3]]]

\* fromMomento had it numbered the coins again instead of keeping their serials
fromMomento_renumbers(cache, momento) ==
    [cache EXCEPT !.cell = [i |-> momento[1], j |-> momento[2]],
                  !.coins = [k \in 1..momento[3] |->
                                [cell |-> ParseCoins(momento)[k].cell, serial |-> k - 1]]]

\* the cache after  cache.fromMomento(momento)
fromMomento(cache, momento) ==
    [cache EXCEPT !.cell = [i |-> momento[1], j |-> momento[2]],
                  !.coins = ParseCoins(momento)]

\* JSON.parse(momento) returns: the text is one a Cache wrote.  Any other
\* text makes fromMomento throw a SyntaxError at line 40.
Parses(momento) == Len(momento) >= 3 /\ Len(momento) = 3 + 3 * momento[3]

\* a text JSON.parse rejects: the empty string
Garbled == <<>>

(***************************************************************************)
(* luck.ts: a pure function from a seed string to [0,1), here a table of   *)
(* hundredths; every seed the table does not name is above the spawn       *)
(* probability.                                                            *)
(***************************************************************************)
CoinsSeed(key) == key \o <<",", "coins">>

LuckTable ==
    { <<getCellKey([i |-> 0, j |-> 0]), 5>>,
      <<CoinsSeed(getCellKey([i |-> 0, j |-> 0])), 37>>,
      <<getCellKey([i |-> 20, j |-> -20]), 3>>,
      <<CoinsSeed(getCellKey([i |-> 20, j |-> -20])), 15>>,
      <<getCellKey([i |-> 29, j |-> -21]), 7>>,
      <<CoinsSeed(getCellKey([i |-> 29, j |-> -21])), 17>>,
      <<getCellKey([i |-> 20, j |-> -30]), 19>>,
      <<CoinsSeed(getCellKey([i |-> 20, j |-> -30])), 4>>,
      <<getCellKey([i |-> 20, j |-> -21]), 10>>,
      <<getCellKey([i |-> 12, j |-> -21]), 99>> }

luck(seed) ==
    IF \E e \in LuckTable : e[1] = seed
    THEN (CHOOSE e \in LuckTable : e[1] = seed)[2]
    ELSE 50

\* the cells whose presence seed the table names
LuckCells == {getCellFromKey(e[1]) : e \in {x \in LuckTable : Len(x[1]) > 0 /\ x[1][Len(x[1])] # "coins"}}

(***************************************************************************)
(* Board                                                                   *)
(***************************************************************************)
getCellForPoint(point) ==
    [i |-> (point.lat - NULL_ISLAND.lat) \div TILE_DEGREES,
     j |-> (point.lng - NULL_ISLAND.lng) \div TILE_DEGREES]

\* the object a literal  { i, j }  makes; id tells one object from another
CellObject(cell, id) == [i |-> cell.i, j |-> cell.j, id |-> id]

\* getCanonicalCell had it stored the cell it was given on every call
getCanonicalCell_overwrites(knownCells, cell) ==
    [k \in DOMAIN knownCells \cup {getCellKey(cell)} |->
        IF k = getCellKey(cell) THEN cell ELSE knownCells[k]]

\* lines 155-161: knownCells after  getCanonicalCell(cell)
getCanonicalCell(knownCells, cell) ==
    IF getCellKey(cell) \in DOMAIN knownCells THEN knownCells
    ELSE [k \in DOMAIN knownCells \cup {getCellKey(cell)} |->
             IF k = getCellKey(cell) THEN cell ELSE knownCells[k]]

\* line 160: what the call returns
Canonical(knownCells, cell) == getCanonicalCell(knownCells, cell)[getCellKey(cell)]

getCellBounds(cell) ==
    [sw |-> latLng(cell.i * TILE_DEGREES, cell.j * TILE_DEGREES),
     ne |-> latLng((cell.i + 1) * TILE_DEGREES, (cell.j + 1) * TILE_DEGREES)]

(***************************************************************************)
(* generateCache: <<>> stands for null, <<cache>> for a cache.             *)
(***************************************************************************)
CoinsOf(cell, coinCount) ==
    [serial \in 1..coinCount |-> [cell |-> cell, serial |-> serial - 1]]

\* generateCache with  <=  for the spawn test
generateCache_inclusive(cell) ==
    IF luck(getCellKey(cell)) <= CACHE_SPAWN_PROBABILITY
    THEN <<NewCache(cell, CoinsOf(cell, (luck(CoinsSeed(getCellKey(cell))) * 10) \div 100))>>
    ELSE <<>>

\* generateCache with the coin factor 100
generateCache_timesHundred(cell) ==
    IF luck(getCellKey(cell)) < CACHE_SPAWN_PROBABILITY
    THEN <<NewCache(cell, CoinsOf(cell, (luck(CoinsSeed(getCellKey(cell))) * 100) \div 100))>>
    ELSE <<>>

generateCache(cell) ==
    IF luck(getCellKey(cell)) < CACHE_SPAWN_PROBABILITY
    THEN <<NewCache(cell, CoinsOf(cell, (luck(CoinsSeed(getCellKey(cell))) * 10) \div 100))>>
    ELSE <<>>

\* the cells of the table for which generateCache returns a cache
SpawnCells == {c \in LuckCells : generateCache(c) # <<>>}

(***************************************************************************)
(* The map.  A Rectangle carries the Cache its popup closes over.  While   *)
(* that Cache is the object stored in activeCaches under `key` the layer   *)
(* is live and the content is read there; once the manager has dropped     *)
(* the object (activeCaches.clear()) the layer holds the only reference    *)
(* and keeps the content itself.                                           *)
(***************************************************************************)
displayCacheOnMap(key, cache) ==
    [bounds |-> getCellBounds(cache.cell), live |-> TRUE, key |-> key,
     cache |-> NewCache(cache.cell, <<>>)]

\* activeCaches.clear(): every live layer is left holding its Cache alone
Orphaned(lyrs, active) ==
    [n \in 1..Len(lyrs) |->
        IF lyrs[n].live
        THEN [lyrs[n] EXCEPT !.live = FALSE, !.cache = active[lyrs[n].key]]
        ELSE lyrs[n]]

(***************************************************************************)
(* CacheManager.updateVisibleCaches                                        *)
(***************************************************************************)
\* minI, maxI, minJ, maxJ
WindowAround(playerCell, visibilityRadius) ==
    [minI |-> playerCell.i - visibilityRadius, maxI |-> playerCell.i + visibilityRadius,
     minJ |-> playerCell.j - visibilityRadius, maxJ |-> playerCell.j + visibilityRadius]

\* the window test had it left the outermost ring of cells out
InWindow_exclusive(cell, win) ==
    ~(cell.i <= win.minI \/ cell.i >= win.maxI \/ cell.j <= win.minJ \/ cell.j >= win.maxJ)

InWindow(cell, win) ==
    ~(cell.i < win.minI \/ cell.i > win.maxI \/ cell.j < win.minJ \/ cell.j > win.maxJ)

\* loop order of  for i ... for j ...
LoopBefore(a, b) == a.i < b.i \/ (a.i = b.i /\ a.j < b.j)

FirstInLoop(cells) == CHOOSE c \in cells : \A d \in cells \ {c} : LoopBefore(c, d)

RECURSIVE InLoopOrder(_)
InLoopOrder(cells) ==
    IF cells = {} THEN <<>>
    ELSE <<FirstInLoop(cells)>> \o InLoopOrder(cells \ {FirstInLoop(cells)})

\* The loop body acts only on a cell that has a memento or that spawns;
\* these are the cells of the window the model visits, in loop order.
CellsActedOn(states, win) ==
    InLoopOrder({c \in SpawnCells \cup {getCellFromKey(k) : k \in DOMAIN states} :
                    InWindow(c, win)})

\* lines 109-115: the cache made of what generateCache returned
FromGenerated(generatedCache) ==
    IF generatedCache # <<>>
    THEN <<NewCache(generatedCache[1].cell, generatedCache[1].coins)>>
    ELSE <<>>

\* the loop body had it generated the cache again without looking at cacheStates
CacheFor_regenerates(cell, key, active, states) ==
    IF key \in DOMAIN active THEN <<>>
    ELSE FromGenerated(generateCache(cell))

\* lines 98-116 for the cell with this key: the cache to activate, or <<>>
CacheFor(cell, key, active, states) ==
    IF key \in DOMAIN active THEN <<>>
    ELSE IF key \in DOMAIN states
         THEN <<fromMomento(NewCache(cell, <<>>), states[key])>>
         ELSE FromGenerated(generateCache(cell))

ActivationFor(cell, key, active, states) ==
    [key |-> key, cache |-> CacheFor(cell, key, active, states)]

Activates(activation) == activation.cache # <<>>

\* the activations of the first loop, in the order they are made
Activations(visited, active, states) ==
    SelectSeq([n \in 1..Len(visited) |->
                  ActivationFor(visited[n], getCellKey(visited[n]), active, states)],
              Activates)

\* activeCaches and the layers after the first loop
Activated(active, lyrs, made) ==
    [active |-> [k \in DOMAIN active \cup {made[n].key : n \in 1..Len(made)} |->
                    IF k \in DOMAIN active THEN active[k]
                    ELSE made[CHOOSE n \in 1..Len(made) : made[n].key = k].cache[1]],
     layers |-> lyrs \o [n \in 1..Len(made) |->
                            displayCacheOnMap(made[n].key, made[n].cache[1])]]

\* lines 121-128
CellsToRemove(active, win) == {k \in DOMAIN active : ~InWindow(active[k].cell, win)}

\* lines 131-142: a layer is removed when its bounds equal those of a removed cache
LayerStays(layer, active, cellsToRemove) ==
    \A k \in cellsToRemove : layer.bounds # getCellBounds(active[k].cell)

RECURSIVE KeepLayers(_, _, _)
KeepLayers(lyrs, active, cellsToRemove) ==
    IF Len(lyrs) = 0 THEN <<>>
    ELSE (IF LayerStays(Head(lyrs), active, cellsToRemove) THEN <<Head(lyrs)>> ELSE <<>>)
         \o KeepLayers(Tail(lyrs), active, cellsToRemove)

\* eviction had it dropped the caches without writing their mementos
Evicted_forgets(active, states, lyrs, cellsToRemove) ==
    [active |-> [k \in DOMAIN active \ cellsToRemove |-> active[k]],
     states |-> states,
     layers |-> KeepLayers(lyrs, active, cellsToRemove)]

\* eviction had it kept the memento a cell already has
Evicted_keepsOld(active, states, lyrs, cellsToRemove) ==
    [active |-> [k \in DOMAIN active \ cellsToRemove |-> active[k]],
     states |-> [k \in DOMAIN states \cup cellsToRemove |->
                    IF k \in DOMAIN states THEN states[k] ELSE toMomento(active[k])],
     layers |-> KeepLayers(lyrs, active, cellsToRemove)]

\* the update had it deleted the memento of every cache that is active
Evicted_dropsRestored(active, states, lyrs, cellsToRemove) ==
    [active |-> [k \in DOMAIN active \ cellsToRemove |-> active[k]],
     states |-> [k \in (DOMAIN states \ DOMAIN active) \cup cellsToRemove |->
                    IF k \in cellsToRemove THEN toMomento(active[k]) ELSE states[k]],
     layers |-> KeepLayers(lyrs, active, cellsToRemove)]

Evicted(active, states, lyrs, cellsToRemove) ==
    [active |-> [k \in DOMAIN active \ cellsToRemove |-> active[k]],
     states |-> [k \in DOMAIN states \cup cellsToRemove |->
                    IF k \in cellsToRemove THEN toMomento(active[k]) ELSE states[k]],
     layers |-> KeepLayers(lyrs, active, cellsToRemove)]

SecondLoops(a, states, win) ==
    Evicted(a.active, states, a.layers, CellsToRemove(a.active, win))

\* lines 101-103: the loop body reaches fromMomento with a text JSON.parse
\* rejects; nothing in updateVisibleCaches catches the SyntaxError
ThrowsAt(cell, key, active, states) ==
    key \notin DOMAIN active /\ key \in DOMAIN states /\ ~Parses(states[key])

LoopThrows(visited, active, states) ==
    \E n \in 1..Len(visited) :
        ThrowsAt(visited[n], getCellKey(visited[n]), active, states)

\* the cells whose loop body completes: those before the first that throws
RECURSIVE UntilThrow(_, _, _)
UntilThrow(visited, active, states) ==
    IF Len(visited) = 0 THEN <<>>
    ELSE IF ThrowsAt(Head(visited), getCellKey(Head(visited)), active, states) THEN <<>>
    ELSE <<Head(visited)>> \o UntilThrow(Tail(visited), active, states)

FirstLoop(active, states, lyrs, win) ==
    Activated(active, lyrs,
              Activations(UntilThrow(CellsActedOn(states, win), active, states),
                          active, states))

\* the first loop threw: the second and third loops are not reached
Aborted(a, states) == [active |-> a.active, states |-> states, layers |-> a.layers]

updateVisibleCaches(active, states, lyrs, position, visibilityRadius) ==
    IF LoopThrows(CellsActedOn(states, WindowAround(getCellForPoint(position),
                                                    visibilityRadius)), active, states)
    THEN Aborted(FirstLoop(active, states, lyrs,
                           WindowAround(getCellForPoint(position), visibilityRadius)),
                 states)
    ELSE SecondLoops(FirstLoop(active, states, lyrs,
                               WindowAround(getCellForPoint(position), visibilityRadius)),
                     states, WindowAround(getCellForPoint(position), visibilityRadius))

\* updateVisibleCaches leaves by a throw
updateThrows(active, states, position, visibilityRadius) ==
    LoopThrows(CellsActedOn(states, WindowAround(getCellForPoint(position),
                                                 visibilityRadius)), active, states)

(***************************************************************************)
(* The world: the module's variables and the manager's maps, as one        *)
(* record the handlers transform.  threw says that the handler has been    *)
(* left by an exception: the statements after the throw do not run.        *)
(***************************************************************************)
EmptyMap == [k \in {} |-> <<>>]

World ==
    [playerPosition |-> playerPosition, playerCoins |-> playerCoins,
     coinsKind |-> coinsKind, movementHistory |-> movementHistory,
     active |-> activeCaches, states |-> cacheStates, layers |-> layers,
     storage |-> storage, threw |-> FALSE]

Install(w) ==
    /\ playerPosition' = w.playerPosition
    /\ playerCoins' = w.playerCoins
    /\ coinsKind' = w.coinsKind
    /\ movementHistory' = w.movementHistory
    /\ activeCaches' = w.active
    /\ cacheStates' = w.states
    /\ layers' = w.layers
    /\ storage' = w.storage

WithCaches(w, u) == [w EXCEPT !.active = u.active, !.states = u.states,
                              !.layers = u.layers]

\* cacheManager.updateVisibleCaches(playerPosition, NEIGHBORHOOD_SIZE)
Refreshed(w) ==
    [WithCaches(w, updateVisibleCaches(w.active, w.states, w.layers, w.playerPosition,
                                       NEIGHBORHOOD_SIZE))
        EXCEPT !.threw = updateThrows(w.active, w.states, w.playerPosition,
                                      NEIGHBORHOOD_SIZE)]

(***************************************************************************)
(* saveGameState: the item written to localStorage.                        *)
(***************************************************************************)
SnapshotFields == {"playerPosition", "playerCoins", "cacheStates", "movementHistory"}

NoItem ==
    [present |-> FALSE, parseable |-> TRUE, fields |-> {},
     playerPosition |-> NULL_ISLAND, playerCoins |-> 0, coinsKind |-> "undefined",
     cacheStates |-> {}, movementHistory |-> <<>>]

\* the merge had it let the memento in cacheStates win over the live cache
AllCaches_dormantWins(active, states) ==
    [k \in DOMAIN states \cup DOMAIN active |->
        IF k \in DOMAIN states THEN states[k] ELSE toMomento(active[k])]

\* lines 374-377
AllCaches(active, states) ==
    [k \in DOMAIN states \cup DOMAIN active |->
        IF k \in DOMAIN active THEN toMomento(active[k]) ELSE states[k]]

\* Array.from(allCaches.entries())
Entries(allCaches) == {<<k, allCaches[k]>> : k \in DOMAIN allCaches}

Snapshot(w) ==
    [present |-> TRUE, parseable |-> TRUE,
     \* JSON.stringify leaves out an undefined property and writes NaN as null
     fields |-> IF w.coinsKind = "undefined" THEN SnapshotFields \ {"playerCoins"}
                ELSE SnapshotFields,
     playerPosition |-> [lat |-> w.playerPosition.lat, lng |-> w.playerPosition.lng],
     playerCoins |-> IF w.coinsKind = "number" THEN w.playerCoins ELSE 0,
     coinsKind |-> IF w.coinsKind = "NaN" THEN "null" ELSE w.coinsKind,
     cacheStates |-> Entries(AllCaches(w.active, w.states)),
     movementHistory |-> [n \in 1..Len(w.movementHistory) |->
                             [lat |-> w.movementHistory[n].lat,
                              lng |-> w.movementHistory[n].lng]]]

saveGameState(w) == [w EXCEPT !.storage = Snapshot(w)]

\* saveGameState() as the statement after updateVisibleCaches
ThenSave(w) == IF w.threw THEN w ELSE saveGameState(w)

(***************************************************************************)
(* loadGameState, run on the freshly initialised module (lines 55, 202,    *)
(* 205).  A throw inside the try block keeps the assignments made before   *)
(* it.                                                                     *)
(***************************************************************************)
FreshWorld(savedState) ==
    [playerPosition |-> OAKES_CLASSROOM, playerCoins |-> 0, coinsKind |-> "number",
     movementHistory |-> <<OAKES_CLASSROOM>>, active |-> EmptyMap, states |-> EmptyMap,
     layers |-> <<>>, storage |-> savedState, threw |-> FALSE]

\* new Map(state.cacheStates)
MapOfEntries(entries) ==
    [k \in {e[1] : e \in entries} |-> (CHOOSE e \in entries : e[1] = k)[2]]

\* lines 406-411
RestorePosition(w, state) ==
    [w EXCEPT !.playerPosition = latLng(state.playerPosition.lat,
                                        state.playerPosition.lng)]

\* lines 414-418
RestoreHistory(w, state) ==
    [w EXCEPT !.movementHistory =
        [n \in 1..Len(state.movementHistory) |->
            latLng(state.movementHistory[n].lat, state.movementHistory[n].lng)]]

\* line 421
RestoreCoins(w, state) ==
    IF "playerCoins" \in state.fields
    THEN [w EXCEPT !.playerCoins = state.playerCoins, !.coinsKind = state.coinsKind]
    ELSE [w EXCEPT !.playerCoins = 0, !.coinsKind = "undefined"]

\* the restore had it left the saved mementos out
RestoreCaches_forgets(w, state) ==
    Refreshed([w EXCEPT !.layers = Orphaned(w.layers, w.active),
                        !.active = EmptyMap,
                        !.states = EmptyMap])

\* lines 428-434
RestoreCaches(w, state) ==
    Refreshed([w EXCEPT !.layers = Orphaned(w.layers, w.active),
                        !.active = EmptyMap,
                        !.states = IF "cacheStates" \in state.fields
                                   THEN MapOfEntries(state.cacheStates)
                                   ELSE EmptyMap])

\* lines 435-437
Caught(w) == [w EXCEPT !.threw = FALSE]

loadGameState(w) ==
    IF ~w.storage.present THEN w
    ELSE IF ~w.storage.parseable THEN w
    ELSE IF "playerPosition" \notin w.storage.fields THEN w
    ELSE IF "movementHistory" \notin w.storage.fields
         THEN RestorePosition(w, w.storage)
    ELSE Caught(RestoreCaches(RestoreCoins(RestoreHistory(RestorePosition(w, w.storage),
                                                          w.storage), w.storage),
                              w.storage))

(***************************************************************************)
(* The state after the module has run on a browser without a saved item.   *)
(***************************************************************************)
Init ==
    /\ playerPosition = OAKES_CLASSROOM
    /\ playerCoins = 0
    /\ coinsKind = "number"
    /\ movementHistory = <<OAKES_CLASSROOM>>
    /\ activeCaches = EmptyMap
    /\ cacheStates = EmptyMap
    /\ layers = <<>>
    /\ storage = NoItem
    /\ sensorPending = 0
    /\ resets = 0
    /\ lastOp = "start"
    /\ board = EmptyMap
    /\ returned = <<>>

(***************************************************************************)
(* updatePlayerPosition and the four direction buttons                     *)
(***************************************************************************)
Directions ==
    { <<MOVEMENT_STEP, 0>>, <<-MOVEMENT_STEP, 0>>, <<0, -MOVEMENT_STEP>>,
      <<0, MOVEMENT_STEP>> }

StartCell == getCellForPoint(OAKES_CLASSROOM)

Abs(n) == IF n < 0 THEN -n ELSE n

\* the cells at most MaxOffset button presses away from the start cell
InRange(position) ==
    Abs(getCellForPoint(position).i - StartCell.i)
        + Abs(getCellForPoint(position).j - StartCell.j) <= MaxOffset

\* lines 319-326
Target(w, latChange, lngChange, isAbsolute) ==
    IF isAbsolute THEN latLng(latChange, lngChange)
    ELSE latLng(w.playerPosition.lat + latChange, w.playerPosition.lng + lngChange)

\* lines 328-332
Stepped(w, position) ==
    [w EXCEPT !.playerPosition = position,
              !.movementHistory = Append(w.movementHistory, position)]

updatePlayerPosition(w, latChange, lngChange, isAbsolute) ==
    ThenSave(Refreshed(Stepped(w, Target(w, latChange, lngChange, isAbsolute))))

Move(d) ==
    /\ Len(movementHistory) < MaxHistory
    /\ InRange(latLng(playerPosition.lat + d[1], playerPosition.lng + d[2]))
    /\ Install(updatePlayerPosition(World, d[1], d[2], FALSE))
    /\ lastOp' = "move"
    /\ UNCHANGED <<sensorPending, resets, board, returned>>

MoveButton == \E d \in Directions : Move(d)

(***************************************************************************)
(* The sensor button: getCurrentPosition and its two callbacks             *)
(***************************************************************************)
SensorFixes == {latLng(41, -41), latLng(43, -41)}

SensorClick ==
    /\ sensorPending < MaxPending
    /\ sensorPending' = sensorPending + 1
    /\ UNCHANGED <<board, returned, playerPosition, playerCoins, coinsKind, movementHistory,
                   activeCaches, cacheStates, layers, storage, resets, lastOp>>

\* the success callback had it stopped after the activation loop, the
\* eviction loops being left for later
OnPosition_activatesOnly(w, coords) ==
    ThenSave(WithCaches([w EXCEPT !.playerPosition = latLng(coords.lat, coords.lng)],
                        Aborted(FirstLoop(w.active, w.states, w.layers,
                                          WindowAround(getCellForPoint(latLng(coords.lat,
                                                                              coords.lng)),
                                                       NEIGHBORHOOD_SIZE)),
                                w.states)))

\* lines 357-366
OnPosition(w, coords) ==
    ThenSave(Refreshed([w EXCEPT !.playerPosition = latLng(coords.lat, coords.lng)]))

SensorSuccess(fix) ==
    /\ sensorPending > 0
    /\ sensorPending' = sensorPending - 1
    /\ Install(OnPosition(World, fix))
    /\ lastOp' = "sensor"
    /\ UNCHANGED <<resets, board, returned>>

SensorFix == \E fix \in SensorFixes : SensorSuccess(fix)

\* the error callback had it fallen back to the starting position
onPositionError_fallsBack(w) == OnPosition(w, OAKES_CLASSROOM)

\* lines 367-369: console.error and nothing else
onPositionError(w) == w

SensorError ==
    /\ sensorPending > 0
    /\ sensorPending' = sensorPending - 1
    /\ Install(onPositionError(World))
    /\ lastOp' = "sensorError"
    /\ UNCHANGED <<resets, board, returned>>

(***************************************************************************)
(* collectCoin and depositCoin, reached through the popup of layer n       *)
(***************************************************************************)
\* the Cache the popup of a layer closes over
CacheOf(w, layer) == IF layer.live THEN w.active[layer.key] ELSE layer.cache

\* the caches had they shared one coin array: every active cache holds
\* the coins written through layer n
WithCoins_shared(w, n, coins) ==
    IF w.layers[n].live
    THEN [w EXCEPT !.active = [k \in DOMAIN w.active |-> [w.active[k] EXCEPT !.coins = coins]]]
    ELSE [w EXCEPT !.layers[n].cache.coins = coins]

\* the object behind layer n now holds these coins
WithCoins(w, n, coins) ==
    IF w.layers[n].live
    THEN [w EXCEPT !.active[w.layers[n].key].coins = coins]
    ELSE [w EXCEPT !.layers[n].cache.coins = coins]

\* playerCoins++ on a number, undefined, NaN or null
Incremented(w) ==
    CASE w.coinsKind = "number" -> [w EXCEPT !.playerCoins = @ + 1]
      [] w.coinsKind = "null" -> [w EXCEPT !.playerCoins = 1, !.coinsKind = "number"]
      [] OTHER -> [w EXCEPT !.playerCoins = 0, !.coinsKind = "NaN"]

\* playerCoins > 0
HasCoins(w) == w.coinsKind = "number" /\ w.playerCoins > 0

\* cache.coins.shift() in place of pop()
Popped_first(coins) == SubSeq(coins, 2, Len(coins))

Popped(coins) == SubSeq(coins, 1, Len(coins) - 1)

\* collectCoin without its  cache.coins.length > 0  test
collectCoin_unguarded(w, n) ==
    saveGameState(Incremented(WithCoins(w, n, Popped(CacheOf(w, w.layers[n]).coins))))

collectCoin(w, n) ==
    IF Len(CacheOf(w, w.layers[n]).coins) > 0
    THEN saveGameState(Incremented(WithCoins(w, n, Popped(CacheOf(w, w.layers[n]).coins))))
    ELSE w

\* the deposit had it numbered the new coin from 1
Pushed_serialFromOne(cache) ==
    Append(cache.coins, [cell |-> cache.cell, serial |-> Len(cache.coins) + 1])

Pushed(cache) ==
    Append(cache.coins, [cell |-> cache.cell, serial |-> Len(cache.coins)])

\* depositCoin without its  playerCoins > 0  test
depositCoin_unguarded(w, n) ==
    saveGameState([WithCoins(w, n, Pushed(CacheOf(w, w.layers[n])))
                      EXCEPT !.playerCoins = @ - 1])

depositCoin(w, n) ==
    IF HasCoins(w)
    THEN saveGameState([WithCoins(w, n, Pushed(CacheOf(w, w.layers[n])))
                           EXCEPT !.playerCoins = @ - 1])
    ELSE w

Collect ==
    \E n \in 1..Len(layers) :
        /\ coinsKind = "number" => playerCoins < MaxCoins
        /\ Install(collectCoin(World, n))
        /\ lastOp' = IF Len(CacheOf(World, layers[n]).coins) > 0 THEN "collect" ELSE lastOp
        /\ UNCHANGED <<sensorPending, resets, board, returned>>

Deposit ==
    \E n \in 1..Len(layers) :
        /\ Len(CacheOf(World, layers[n]).coins) < MaxCoins
        /\ Install(depositCoin(World, n))
        /\ lastOp' = IF HasCoins(World) THEN "deposit" ELSE lastOp
        /\ UNCHANGED <<sensorPending, resets, board, returned>>

(***************************************************************************)
(* The reset button                                                        *)
(***************************************************************************)
\* lines 442-449
ResetPlayer(w) ==
    [w EXCEPT !.storage = NoItem, !.playerCoins = 0, !.coinsKind = "number",
              !.playerPosition = OAKES_CLASSROOM]

\* lines 453-457
ResetCaches(w) ==
    IF w.threw THEN w
    ELSE [w EXCEPT !.movementHistory = <<>>, !.states = EmptyMap, !.active = EmptyMap,
                   !.layers = Orphaned(w.layers, w.active)]

resetClick(w, answer) ==
    IF answer = "yes"
    THEN ResetCaches(updatePlayerPosition(ResetPlayer(w), INITIAL_LAT, INITIAL_LNG, TRUE))
    ELSE w

Reset ==
    \E answer \in {"yes", "no"} :
        /\ answer = "yes" => Len(movementHistory) < MaxHistory /\ resets < MaxResets
        /\ Install(resetClick(World, answer))
        /\ resets' = IF answer = "yes" THEN resets + 1 ELSE resets
        /\ lastOp' = IF answer = "yes" THEN "reset" ELSE lastOp
        /\ UNCHANGED <<sensorPending, board, returned>>

(***************************************************************************)
(* Reloading the page: the module runs again and calls loadGameState.      *)
(***************************************************************************)
Reload ==
    /\ Install(loadGameState(FreshWorld(storage)))
    /\ sensorPending' = 0
    /\ lastOp' = IF storage.present THEN "load" ELSE "start"
    /\ UNCHANGED <<resets, board, returned>>

(***************************************************************************)
(* The stored item is edited outside the program (another version of the   *)
(* page, the browser's developer tools): one property is lost, the text   *)
(* no longer parses, or the memento of one cell no longer parses.          *)
(***************************************************************************)
Tamper ==
    /\ storage.present
    /\ storage.parseable
    /\ storage.fields = SnapshotFields
    /\ \A e \in storage.cacheStates : Parses(e[2])
    /\ \/ storage' = [storage EXCEPT !.parseable = FALSE]
       \/ \E f \in SnapshotFields : storage' = [storage EXCEPT !.fields = @ \ {f}]
       \/ \E e \in storage.cacheStates :
              storage' = [storage EXCEPT
                             !.cacheStates = (@ \ {e}) \cup {<<e[1], Garbled>>}]
    /\ lastOp' = "edit"
    /\ UNCHANGED <<board, returned, playerPosition, playerCoins, coinsKind, movementHistory,
                   activeCaches, cacheStates, layers, sensorPending, resets>>

\* play without the reset button
NextPlay ==
    \/ MoveButton
    \/ SensorClick
    \/ SensorFix
    \/ SensorError
    \/ Collect
    \/ Deposit
    \/ Reload

Next ==
    \/ NextPlay
    \/ Reset

NextMalformed ==
    \/ NextPlay
    \/ Tamper

(***************************************************************************)
(* The memento codec on its own: a Cache drawn from a small set is         *)
(* serialized with toMomento, and a new Cache for its cell reads the       *)
(* memento back with fromMomento.                                          *)
(***************************************************************************)
CodecCells == {[i |-> 0, j |-> 0], [i |-> 20, j |-> -21], [i |-> -3, j |-> 12]}

CodecCoins == [cell : CodecCells, serial : 0..MaxSerial]

CodecCaches ==
    {NewCache(cell, coins) :
        cell \in CodecCells,
        coins \in UNION {[1..n -> CodecCoins] : n \in 0..MaxCodecLen}}

InitCodec ==
    /\ playerPosition = OAKES_CLASSROOM
    /\ playerCoins = 0
    /\ coinsKind = "number"
    /\ movementHistory = <<OAKES_CLASSROOM>>
    /\ \E c \in CodecCaches : activeCaches = [k \in {getCellKey(c.cell)} |-> c]
    /\ cacheStates = EmptyMap
    /\ layers = <<>>
    /\ storage = NoItem
    /\ sensorPending = 0
    /\ resets = 0
    /\ lastOp = "start"
    /\ board = EmptyMap
    /\ returned = <<>>

\* cacheStates.set(key, cache.toMomento())
Encode ==
    \E key \in DOMAIN activeCaches :
        /\ cacheStates' = [k \in DOMAIN cacheStates \cup {key} |->
                              IF k = key THEN toMomento(activeCaches[key])
                              ELSE cacheStates[k]]
        /\ lastOp' = "encode"
        /\ UNCHANGED <<board, returned, playerPosition, playerCoins, coinsKind, movementHistory,
                       activeCaches, layers, storage, sensorPending, resets>>

\* const cache = new Cache(cell); cache.fromMomento(cacheStates.get(key))
Decode ==
    \E key \in DOMAIN cacheStates :
        /\ activeCaches' =
              [activeCaches EXCEPT
                  ![key] = fromMomento(NewCache(activeCaches[key].cell, <<>>),
                                       cacheStates[key])]
        /\ lastOp' = "decode"
        /\ UNCHANGED <<board, returned, playerPosition, playerCoins, coinsKind, movementHistory,
                       cacheStates, layers, storage, sensorPending, resets>>

NextCodec ==
    \/ Encode
    \/ Decode

(***************************************************************************)
(* generateCache on its own: it is called for the cell of a point drawn    *)
(* from a small set, and what it returns is kept as lines 109-113 keep it. *)
(***************************************************************************)
GenerateLats == {-2, -1, 0, 1, 40, 41, 58, 59}

GenerateLngs == {-60, -59, -42, -41, -40, -39, 0, 1}

GeneratePoints == {latLng(lat, lng) : lat \in GenerateLats, lng \in GenerateLngs}

InitGenerate ==
    /\ playerPosition \in GeneratePoints
    /\ playerCoins = 0
    /\ coinsKind = "number"
    /\ movementHistory = <<>>
    /\ activeCaches = EmptyMap
    /\ cacheStates = EmptyMap
    /\ layers = <<>>
    /\ storage = NoItem
    /\ sensorPending = 0
    /\ resets = 0
    /\ lastOp = "point"
    /\ board = EmptyMap
    /\ returned = <<>>

\* if (generatedCache) this.activeCaches.set(key, new Cache(...))
Kept(active, key, generatedCache) ==
    IF generatedCache = <<>> THEN active
    ELSE [k \in DOMAIN active \cup {key} |->
             IF k = key THEN FromGenerated(generatedCache)[1] ELSE active[k]]

Generate ==
    \E point \in GeneratePoints :
        /\ playerPosition' = point
        /\ activeCaches' = Kept(activeCaches, getCellKey(getCellForPoint(point)),
                                generateCache(getCellForPoint(point)))
        /\ lastOp' = "generate"
        /\ UNCHANGED <<board, returned, playerCoins, coinsKind, movementHistory,
                       cacheStates, layers, storage, sensorPending, resets>>

NextGenerate == Generate

(***************************************************************************)
(* A Board on its own: its two lookups are called, in any order, for cells *)
(* and points drawn from small sets; every call passes a new object.  In   *)
(* the play of the game cells are values, so the Board's table is left     *)
(* alone there.                                                            *)
(***************************************************************************)
BoardCells == {[i |-> -1, j |-> 0], [i |-> 0, j |-> 0], [i |-> 20, j |-> -21]}

BoardPoints == {latLng(-1, 0), latLng(0, 0), latLng(1, 1), latLng(40, -42), latLng(41, -41)}

Called(asked, point, id) ==
    /\ board' = getCanonicalCell(board, CellObject(asked, id))
    /\ returned' = Append(returned, [asked |-> asked, point |-> point,
                                      cell |-> Canonical(board, CellObject(asked, id))])
    /\ UNCHANGED <<playerPosition, playerCoins, coinsKind, movementHistory,
                   activeCaches, cacheStates, layers, storage, sensorPending, resets>>

\* board.getCanonicalCell({ i, j })
CanonicalCell ==
    \E cell \in BoardCells :
        /\ Len(returned) < MaxCalls
        /\ Called(cell, <<>>, Len(returned) + 1)
        /\ lastOp' = "getCanonicalCell"

\* board.getCellForPoint(point)
CellForPoint ==
    \E point \in BoardPoints :
        /\ Len(returned) < MaxCalls
        /\ Called(getCellForPoint(point), <<point>>, Len(returned) + 1)
        /\ lastOp' = "getCellForPoint"

NextBoard ==
    \/ CanonicalCell
    \/ CellForPoint

(***************************************************************************)
(* The key functions on their own: getCellKey is called for cells drawn    *)
(* from a small set, getCellFromKey for keys that getCellKey has produced, *)
(* and getCellKey again for cells that getCellFromKey has produced.        *)
(***************************************************************************)
KeyIndices == {-21, -10, -1, 0, 9, 10, 29}

KeyCells == {[i |-> i, j |-> j] : i \in KeyIndices, j \in KeyIndices}

KeyCall(op, cell, key) ==
    /\ Len(returned) < MaxKeyCalls
    /\ returned' = Append(returned, [op |-> op, cell |-> cell, key |-> key])
    /\ lastOp' = op
    /\ UNCHANGED <<playerPosition, playerCoins, coinsKind, movementHistory, activeCaches,
                   cacheStates, layers, storage, sensorPending, resets, board>>

\* const key = this.getCellKey(cell)
CellKey ==
    \E cell \in KeyCells \cup {returned[n].cell : n \in 1..Len(returned)} :
        KeyCall("getCellKey", cell, getCellKey(cell))

\* const cell = this.getCellFromKey(key)
CellFromKey ==
    \E n \in 1..Len(returned) :
        KeyCall("getCellFromKey", getCellFromKey(returned[n].key), returned[n].key)

NextKeys ==
    \/ CellKey
    \/ CellFromKey

Spec == Init /\ [][Next]_vars

SpecKeys == Init /\ [][NextKeys]_vars

SpecBoard == Init /\ [][NextBoard]_vars

SpecGenerate == InitGenerate /\ [][NextGenerate]_vars

SpecCodec == InitCodec /\ [][NextCodec]_vars

SpecPlay == Init /\ [][NextPlay]_vars

SpecMalformed == Init /\ [][NextMalformed]_vars

(***************************************************************************)
(* Vocabulary of the properties.                                           *)
(***************************************************************************)
\* the cells the manager knows: active, or dormant with a memento
Known == DOMAIN activeCaches \cup DOMAIN cacheStates

\* the coin list a memento holds, read as fromMomento reads it
CoinsIn(key, momento) == fromMomento(NewCache(getCellFromKey(key), <<>>), momento).coins

\* the coin list of a known cell: its active cache if active, else its memento
ContentIn(w, key) ==
    IF key \in DOMAIN w.active THEN w.active[key].coins
    ELSE CoinsIn(key, w.states[key])

\* |i - pi| <= R and |j - pj| <= R for (pi, pj) = getCellForPoint(position)
WithinRadius(cell, position) ==
    /\ Abs(cell.i - getCellForPoint(position).i) <= NEIGHBORHOOD_SIZE
    /\ Abs(cell.j - getCellForPoint(position).j) <= NEIGHBORHOOD_SIZE

\* the cells (i, j) with |i - pi| <= R and |j - pj| <= R
CellsAround(position) ==
    {[i |-> i, j |-> j] :
        i \in (getCellForPoint(position).i - NEIGHBORHOOD_SIZE)
                ..(getCellForPoint(position).i + NEIGHBORHOOD_SIZE),
        j \in (getCellForPoint(position).j - NEIGHBORHOOD_SIZE)
                ..(getCellForPoint(position).j + NEIGHBORHOOD_SIZE)}

\* what generateCache yields for the cell of a key, as a coin list
GeneratedCoins(key) ==
    IF generateCache(getCellFromKey(key)) = <<>> THEN <<>>
    ELSE generateCache(getCellFromKey(key))[1].coins

\* the cell has a memento in cacheStates or generateCache yields a cache for it
ProducesCache(cell, key) == key \in DOMAIN cacheStates \/ generateCache(cell) # <<>>

(***************************************************************************)
(* C1  Memento over generation.  In every step that takes a cell from      *)
(* dormant (a memento in cacheStates, not in activeCaches) to active, the  *)
(* activated cache holds exactly the coin list of that memento and the     *)
(* cell of its key; it is never the freshly generated content.             *)
(***************************************************************************)
C1_MementoOverGeneration ==
    [][\A key \in DOMAIN cacheStates \ DOMAIN activeCaches :
          key \in DOMAIN activeCaches' =>
              /\ activeCaches'[key].coins = CoinsIn(key, cacheStates[key])
              /\ activeCaches'[key].cell = getCellFromKey(key)
              /\ toMomento(activeCaches'[key]) = cacheStates[key]]_vars

\* a move or a fix has just brought back a cache whose memento differs from
\* what generation would give
C1_Witness ==
    /\ lastOp \in {"move", "sensor"}
    /\ \E key \in DOMAIN activeCaches \cap DOMAIN cacheStates :
           /\ activeCaches[key].coins = CoinsIn(key, cacheStates[key])
           /\ activeCaches[key].coins # GeneratedCoins(key)

(***************************************************************************)
(* C2  Window correctness.  Right after updateVisibleCaches (a move, a     *)
(* sensor fix or a load) the keys of activeCaches are exactly the cells    *)
(* within NEIGHBORHOOD_SIZE of the player's cell in both coordinates that  *)
(* have a memento in cacheStates or for which generateCache yields a       *)
(* cache.                                                                  *)
(***************************************************************************)
C2_WindowCorrectness ==
    lastOp \in {"move", "sensor", "load"} =>
        /\ \A cell \in CellsAround(playerPosition) :
              ProducesCache(cell, getCellKey(cell)) <=> getCellKey(cell) \in DOMAIN activeCaches
        /\ \A key \in DOMAIN activeCaches :
              getCellFromKey(key) \in CellsAround(playerPosition)

\* after a move or a fix one cache is active and another, now outside the
\* window, is dormant
C2_Witness ==
    /\ lastOp \in {"move", "sensor"}
    /\ DOMAIN activeCaches # {}
    /\ \E key \in DOMAIN cacheStates \ DOMAIN activeCaches :
           ~WithinRadius(getCellFromKey(key), playerPosition)

(***************************************************************************)
(* C3  Conservation, as stated: every step in which collectCoin or         *)
(* depositCoin changes something leaves unchanged the sum of playerCoins   *)
(* and the coin counts of all cells the manager knows (each cell once:     *)
(* its active cache if active, otherwise its memento).                     *)
(***************************************************************************)
RECURSIVE CoinsOver(_, _)
CoinsOver(w, keys) ==
    IF keys = {} THEN 0
    ELSE Len(ContentIn(w, CHOOSE k \in keys : TRUE))
         + CoinsOver(w, keys \ {CHOOSE k \in keys : TRUE})

TotalCoins(w) == w.playerCoins + CoinsOver(w, DOMAIN w.active \cup DOMAIN w.states)

C3_Conservation ==
    [][lastOp' \in {"collect", "deposit"} =>
          /\ coinsKind' = "number"
          /\ playerCoins' + CoinsOver([active |-> activeCaches', states |-> cacheStates'],
                                      DOMAIN activeCaches' \cup DOMAIN cacheStates')
                = TotalCoins(World)]_vars

\* a coin has been collected although the manager knows no cache at all
C3_CoinFromNowhere ==
    /\ lastOp = "collect"
    /\ playerCoins > 0
    /\ Known = {}
    /\ \E n \in 1..Len(layers) : ~layers[n].live

(***************************************************************************)
(* C4  Snapshot round trip.  In every state reached by play, saving and    *)
(* then loading the saved item in a fresh page gives the same playerCoins, *)
(* playerPosition and movementHistory, every known cell is still known     *)
(* with the same coin list, and every known cell inside the window is      *)
(* active with the coin list of its saved memento.                         *)
(***************************************************************************)
\* the item saveGameState writes for w, loaded by a fresh page
SavedAndLoaded(w) == loadGameState(FreshWorld(Snapshot(w)))

SavedMomento(w, key) == (CHOOSE e \in Snapshot(w).cacheStates : e[1] = key)[2]

\* loaded is the same world as w, as far as the player can tell
SameWorld(w, loaded) ==
    /\ loaded.playerCoins = w.playerCoins
    /\ loaded.coinsKind = w.coinsKind
    /\ loaded.playerPosition = w.playerPosition
    /\ loaded.movementHistory = w.movementHistory
    /\ \A key \in DOMAIN w.active \cup DOMAIN w.states :
          /\ key \in DOMAIN loaded.active \cup DOMAIN loaded.states
          /\ ContentIn(loaded, key) = ContentIn(w, key)
    /\ \A key \in DOMAIN w.active \cup DOMAIN w.states :
          WithinRadius(getCellFromKey(key), w.playerPosition) =>
              /\ key \in DOMAIN loaded.active
              /\ loaded.active[key].coins = CoinsIn(key, SavedMomento(w, key))

C4_SnapshotRoundTrip == SameWorld(World, SavedAndLoaded(World))

\* the page has been reloaded with coins in the inventory, a cache in the
\* window whose saved content differs from what generation gives, and a
\* dormant cache outside the window
C4_Witness ==
    /\ lastOp = "load"
    /\ playerCoins > 0
    /\ Len(movementHistory) > 1
    /\ \E key \in DOMAIN activeCaches : activeCaches[key].coins # GeneratedCoins(key)
    /\ \E key \in DOMAIN cacheStates \ DOMAIN activeCaches :
           ~WithinRadius(getCellFromKey(key), playerPosition)

C6_Eviction ==
    [][lastOp' \in {"move", "sensor"} =>
          \A key \in DOMAIN activeCaches :
              IF WithinRadius(activeCaches[key].cell, playerPosition')
              THEN /\ key \in DOMAIN activeCaches'
                   /\ activeCaches'[key] = activeCaches[key]
                   /\ key \in DOMAIN cacheStates' <=> key \in DOMAIN cacheStates
                   /\ key \in DOMAIN cacheStates => cacheStates'[key] = cacheStates[key]
              ELSE /\ key \notin DOMAIN activeCaches'
                   /\ key \in DOMAIN cacheStates'
                   /\ cacheStates'[key] = toMomento(activeCaches[key])
                   /\ CoinsIn(key, cacheStates'[key]) = activeCaches[key].coins]_vars

\* a fix or a move has left outside the window a cache whose memento is not
\* that of the generated content
C6_Witness ==
    /\ lastOp \in {"move", "sensor"}
    /\ \E key \in DOMAIN cacheStates \ DOMAIN activeCaches :
           /\ ~WithinRadius(getCellFromKey(key), playerPosition)
           /\ CoinsIn(key, cacheStates[key]) # GeneratedCoins(key)

(***************************************************************************)
(* C7  Non-negativity.  playerCoins is a number not below 0, and the coin  *)
(* count of every active cache and of every memento is not below 0.        *)
(***************************************************************************)
C7_NonNegative ==
    /\ coinsKind = "number"
    /\ playerCoins >= 0
    /\ \A key \in DOMAIN activeCaches : Len(activeCaches[key].coins) >= 0
    /\ \A key \in DOMAIN cacheStates : cacheStates[key][3] >= 0

\* the last coin of the inventory has just been deposited, and some cache
\* has been emptied
C7_Witness ==
    /\ lastOp = "deposit"
    /\ playerCoins = 0
    /\ \E key \in DOMAIN activeCaches : Len(activeCaches[key].coins) = 0

(***************************************************************************)
(* C8  Memento round trip.  A decode step, which gives a new Cache for     *)
(* the cell the memento of a cache, yields a cache with the same cell,     *)
(* the same number of coins and the same coins (cell, serial) in order.    *)
(***************************************************************************)
C8_MomentoRoundTrip ==
    [][lastOp' = "decode" =>
          \A key \in DOMAIN cacheStates :
              cacheStates[key] = toMomento(activeCaches[key]) =>
                  /\ activeCaches'[key].cell.i = activeCaches[key].cell.i
                  /\ activeCaches'[key].cell.j = activeCaches[key].cell.j
                  /\ Len(activeCaches'[key].coins) = Len(activeCaches[key].coins)
                  /\ \A n \in 1..Len(activeCaches[key].coins) :
                        /\ activeCaches'[key].coins[n].cell = activeCaches[key].coins[n].cell
                        /\ activeCaches'[key].coins[n].serial
                               = activeCaches[key].coins[n].serial]_vars

\* a cache at a negative row has been decoded with two coins, the first of
\* another cell and with the larger serial
C8_Witness ==
    /\ lastOp = "decode"
    /\ \E key \in DOMAIN activeCaches :
           /\ activeCaches[key].cell.i < 0
           /\ Len(activeCaches[key].coins) = 2
           /\ activeCaches[key].coins[1].cell # activeCaches[key].cell
           /\ activeCaches[key].coins[1].serial > activeCaches[key].coins[2].serial

(***************************************************************************)
(* C9  Active wins in a snapshot.  Right after a handler that ends in      *)
(* saveGameState, the saved cacheStates has exactly one entry for each     *)
(* key of cacheStates or activeCaches; the entry of an active key is the   *)
(* memento of the live cache, the entry of any other key is the memento    *)
(* cacheStates holds.                                                      *)
(***************************************************************************)
C9_ActiveWins ==
    lastOp \in {"move", "sensor", "collect", "deposit"} =>
        /\ storage.present
        /\ {e[1] : e \in storage.cacheStates} = Known
        /\ Cardinality(storage.cacheStates) = Cardinality(Known)
        /\ \A key \in DOMAIN activeCaches :
              <<key, toMomento(activeCaches[key])>> \in storage.cacheStates
        /\ \A key \in DOMAIN cacheStates \ DOMAIN activeCaches :
              <<key, cacheStates[key]>> \in storage.cacheStates

\* a save has just written the live content of an active cache whose older
\* memento in cacheStates says otherwise
C9_Witness ==
    /\ lastOp \in {"collect", "deposit"}
    /\ \E key \in DOMAIN activeCaches \cap DOMAIN cacheStates :
           /\ cacheStates[key] # toMomento(activeCaches[key])
           /\ <<key, toMomento(activeCaches[key])>> \in storage.cacheStates

(***************************************************************************)
(* C10  Malformed persisted state, as stated: right after a load of an     *)
(* item that does not parse or lacks a field, playerPosition,              *)
(* movementHistory, playerCoins, activeCaches and cacheStates are those    *)
(* of the fresh page.                                                      *)
(***************************************************************************)
Malformed(item) == item.present /\ (~item.parseable \/ item.fields # SnapshotFields)

C10_MalformedIsNoSavedState ==
    (lastOp = "load" /\ Malformed(storage)) =>
        /\ playerPosition = OAKES_CLASSROOM
        /\ movementHistory = <<OAKES_CLASSROOM>>
        /\ coinsKind = "number"
        /\ playerCoins = 0
        /\ activeCaches = EmptyMap
        /\ cacheStates = EmptyMap

\* an item without movementHistory has moved the player and nothing else
C10_PartialRestore ==
    /\ lastOp = "load"
    /\ storage.present
    /\ storage.parseable
    /\ "movementHistory" \notin storage.fields
    /\ playerPosition # OAKES_CLASSROOM
    /\ movementHistory = <<OAKES_CLASSROOM>>

(***************************************************************************)
(* C11  Memento decode failure, as stated: right after a move or a fix     *)
(* made while cacheStates holds a memento that does not parse, no active   *)
(* cache lies outside the window, and every cell of the window that        *)
(* generates a cache or has a memento that parses is active; so is the     *)
(* cell of the bad memento, by generation.                                 *)
(***************************************************************************)
HasGarbledMomento == \E key \in DOMAIN cacheStates : ~Parses(cacheStates[key])

C11_GarbledMomentoFallsBack ==
    (lastOp \in {"move", "sensor"} /\ HasGarbledMomento) =>
        /\ \A key \in DOMAIN activeCaches :
              WithinRadius(activeCaches[key].cell, playerPosition)
        /\ \A cell \in CellsAround(playerPosition) :
              \/ generateCache(cell) # <<>>
              \/ /\ getCellKey(cell) \in DOMAIN cacheStates
                 /\ Parses(cacheStates[getCellKey(cell)])
              => getCellKey(cell) \in DOMAIN activeCaches

\* a move or a fix has brought the cell of a bad memento into the window:
\* the cell is not active although it generates, and no snapshot was written
C11_UpdateAborted ==
    /\ lastOp \in {"move", "sensor"}
    /\ storage.present
    /\ storage.playerPosition # playerPosition
    /\ \E key \in DOMAIN cacheStates \ DOMAIN activeCaches :
           /\ ~Parses(cacheStates[key])
           /\ WithinRadius(getCellFromKey(key), playerPosition)
           /\ generateCache(getCellFromKey(key)) # <<>>

C13_NoEmptyPlaceholders ==
    \A key \in Known : luck(key) < CACHE_SPAWN_PROBABILITY

\* a cell that generates nothing, back in the window after having left it
Reentered(cell) ==
    /\ WithinRadius(cell, playerPosition)
    /\ \E n \in 1..Len(movementHistory) : ~WithinRadius(cell, movementHistory[n])

C13_Witness ==
    /\ lastOp \in {"move", "sensor"}
    /\ \E cell \in LuckCells :
           /\ generateCache(cell) = <<>>
           /\ Reentered(cell)
           /\ getCellKey(cell) \notin Known
    /\ \E cell \in LuckCells :
           /\ luck(getCellKey(cell)) = CACHE_SPAWN_PROBABILITY
           /\ WithinRadius(cell, playerPosition)

(***************************************************************************)
(* C14  Deterministic generation.  generateCache(cell) returns a cache     *)
(* exactly when luck("i,j") is below the spawn probability, and the cache  *)
(* then has floor(luck("i,j,coins") * 10) coins, numbered from 0; the cell *)
(* (0,0), with luck 0.05 and coin luck 0.37, has 3 coins.  Every call for  *)
(* a cell, the first or a later one, gives this same presence and count.   *)
(***************************************************************************)
ZeroZero == getCellKey([i |-> 0, j |-> 0])

C14_DeterministicGeneration ==
    /\ \A key \in DOMAIN activeCaches :
          /\ luck(key) < CACHE_SPAWN_PROBABILITY
          /\ activeCaches[key].cell = getCellFromKey(key)
          /\ Len(activeCaches[key].coins) = (luck(CoinsSeed(key)) * 10) \div 100
          /\ \A n \in 1..Len(activeCaches[key].coins) :
                activeCaches[key].coins[n] = [cell |-> getCellFromKey(key), serial |-> n - 1]
    /\ lastOp = "generate" =>
          /\ getCellKey(getCellForPoint(playerPosition)) \in DOMAIN activeCaches
                <=> luck(getCellKey(getCellForPoint(playerPosition))) < CACHE_SPAWN_PROBABILITY
          /\ getCellForPoint(playerPosition) = [i |-> 0, j |-> 0] =>
                /\ ZeroZero \in DOMAIN activeCaches
                /\ Len(activeCaches[ZeroZero].coins) = 3

\* generateCache has just been called for (0,0), a cell it had a cache for
\* already, and for cells where it returns nothing
C14_Witness ==
    /\ lastOp = "generate"
    /\ getCellForPoint(playerPosition) = [i |-> 0, j |-> 0]
    /\ ZeroZero \in DOMAIN activeCaches
    /\ Len(activeCaches[ZeroZero].coins) = 3
    /\ Cardinality(DOMAIN activeCaches) = 3

(***************************************************************************)
(* C15  A Cache's cell never changes after construction.  A Cache is made  *)
(* for the cell of its key (lines 95-100 and 109-112); in every reachable  *)
(* state each active cache, each cache behind a rectangle and each cache   *)
(* that a memento would restore holds the cell (i, j) of its key, so the   *)
(* assignment  this.cell = data.cell  of fromMomento never alters it.      *)
(***************************************************************************)
C15_CellNeverChanges ==
    /\ \A key \in DOMAIN activeCaches : activeCaches[key].cell = getCellFromKey(key)
    /\ \A n \in 1..Len(layers) :
          CacheOf(World, layers[n]).cell = getCellFromKey(layers[n].key)
    /\ \A key \in DOMAIN cacheStates :
          Parses(cacheStates[key]) =>
              fromMomento(NewCache(getCellFromKey(key), <<>>), cacheStates[key]).cell
                  = getCellFromKey(key)

\* a page load has restored from its memento a cache whose coins are not
\* the generated ones, while another cache lies dormant
C15_Witness ==
    /\ lastOp = "load"
    /\ \E key \in DOMAIN activeCaches :
           /\ activeCaches[key].coins # GeneratedCoins(key)
           /\ toMomento(activeCaches[key]) = cacheStates[key]
    /\ DOMAIN cacheStates \ DOMAIN activeCaches # {}

(***************************************************************************)
(* C16  Canonicalization.  Whatever calls a Board has served, two calls    *)
(* of getCanonicalCell for the same (i, j) returned the same object, two   *)
(* calls of getCellForPoint for points with the same floor(lat / size) and *)
(* floor(lng / size) returned that object too, the object returned has the *)
(* (i, j) asked for, and knownCells holds one object per (i, j), under the *)
(* key of that (i, j).                                                     *)
(***************************************************************************)
Floor(x) == x \div TILE_DEGREES

SameTile(p, q) == Floor(p.lat) = Floor(q.lat) /\ Floor(p.lng) = Floor(q.lng)

C16_Canonicalization ==
    /\ \A n \in 1..Len(returned) :
          /\ returned[n].cell.i = returned[n].asked.i
          /\ returned[n].cell.j = returned[n].asked.j
          /\ returned[n].point # <<>> =>
                /\ returned[n].cell.i = Floor(returned[n].point[1].lat)
                /\ returned[n].cell.j = Floor(returned[n].point[1].lng)
          /\ board[getCellKey(returned[n].asked)] = returned[n].cell
    /\ \A n, m \in 1..Len(returned) :
          /\ returned[n].asked = returned[m].asked => returned[n].cell = returned[m].cell
          /\ (/\ returned[n].point # <<>>
              /\ returned[m].point # <<>>
              /\ SameTile(returned[n].point[1], returned[m].point[1]))
                => returned[n].cell = returned[m].cell
    /\ \A k \in DOMAIN board : getCellKey(board[k]) = k
    /\ \A k1, k2 \in DOMAIN board : board[k1].id = board[k2].id => k1 = k2

\* one cell has been asked for by getCanonicalCell and by getCellForPoint at
\* two different points, one of them after the other, and a second cell, of
\* negative row, is known as well
C16_Witness ==
    /\ \E n, m, k \in 1..Len(returned) :
           /\ returned[n].point # <<>> /\ returned[m].point # <<>>
           /\ returned[n].point # returned[m].point
           /\ returned[k].point = <<>>
           /\ returned[n].asked = returned[m].asked
           /\ returned[k].asked = returned[n].asked
           /\ returned[n].cell.id < n \/ returned[m].cell.id < m
    /\ \E k \in DOMAIN board : board[k].i < 0

(***************************************************************************)
(* C17  Rendering follows the active set.  After a move, a sensor fix, a   *)
(* page load or a reset, the rectangles on the map are those of the keys   *)
(* of activeCaches, one rectangle per active cell, and the popup of each   *)
(* acts on the Cache that activeCaches holds for its cell.                 *)
(***************************************************************************)
RectanglesOn(key) == {n \in 1..Len(layers) : layers[n].key = key}

C17_RenderingFollowsActive ==
    lastOp \in {"move", "sensor", "load", "reset"} =>
        /\ \A n \in 1..Len(layers) :
              /\ layers[n].key \in DOMAIN activeCaches
              /\ layers[n].live
        /\ \A key \in DOMAIN activeCaches : Cardinality(RectanglesOn(key)) = 1

\* a confirmed reset has left rectangles on the map while activeCaches is empty
C17_RectanglesOutliveReset ==
    /\ lastOp = "reset"
    /\ resets > 0
    /\ activeCaches = EmptyMap
    /\ Len(layers) > 0
    /\ \A n \in 1..Len(layers) : ~layers[n].live

\* after a reset and a move one cell carries two rectangles, the older one
\* with a popup acting on a Cache that activeCaches no longer holds
C17_TwoRectanglesOnOneCell ==
    /\ lastOp \in {"move", "sensor"}
    /\ \E key \in DOMAIN activeCaches :
           \E n, m \in RectanglesOn(key) : layers[n].live /\ ~layers[m].live

(***************************************************************************)
(* C18  Atomic transitions.  The geolocation success callback runs as one  *)
(* step, wherever it falls among the moves, collects and deposits made     *)
(* while the request was pending.  Right after it the player is at the     *)
(* sensor position, the snapshot holds that position, and every cell of    *)
(* the window of that position that has a memento or generates a cache is  *)
(* active.  In every state, so in every state a collect or a deposit      *)
(* starts from, no active cache lies outside the window of the player's    *)
(* position, and a collect or a deposit leaves the window fully activated. *)
(***************************************************************************)
FullyUpdated ==
    /\ \A key \in DOMAIN activeCaches :
          WithinRadius(activeCaches[key].cell, playerPosition)
    /\ \A cell \in CellsAround(playerPosition) :
          ProducesCache(cell, getCellKey(cell)) => getCellKey(cell) \in DOMAIN activeCaches

C18_AtomicSensorUpdate ==
    /\ \A key \in DOMAIN activeCaches :
          WithinRadius(activeCaches[key].cell, playerPosition)
    /\ lastOp \in {"sensor", "collect", "deposit"} => FullyUpdated
    /\ lastOp = "sensor" =>
          /\ playerPosition \in SensorFixes
          /\ storage.present
          /\ storage.playerPosition = playerPosition

\* a fix has arrived after a button move and a collect, at a position other
\* than the one the button led to, and has sent a cache dormant
C18_Witness ==
    /\ lastOp = "sensor"
    /\ HasCoins(World)
    /\ Len(movementHistory) > 1
    /\ movementHistory[Len(movementHistory)] # playerPosition
    /\ DOMAIN activeCaches # {}
    /\ \E key \in DOMAIN cacheStates \ DOMAIN activeCaches :
           ~WithinRadius(getCellFromKey(key), playerPosition)

(***************************************************************************)
(* C19  Save then load with zero prior activity.  A world in which no move *)
(* has been made and no coin has changed hands (the trail has at most one  *)
(* point, the inventory is 0, every known cache holds its generated coins) *)
(* is saved and the snapshot loaded on a fresh page.                       *)
(***************************************************************************)
NoActivity ==
    /\ Len(movementHistory) <= 1
    /\ coinsKind = "number" /\ playerCoins = 0
    /\ \A key \in Known : ContentIn(World, key) = GeneratedCoins(key)

\* C19 as stated: the load restores playerCoins = 0 and an empty trail
C19_ZeroActivityEmptyTrail ==
    NoActivity =>
        /\ SavedAndLoaded(World).playerCoins = 0
        /\ SavedAndLoaded(World).coinsKind = "number"
        /\ SavedAndLoaded(World).movementHistory = <<>>

\* what the load does restore on a page that has seen no reset: playerCoins
\* = 0 and the trail of one point that line 205 begins with
C19_ZeroActivityStartTrail ==
    NoActivity =>
        /\ SavedAndLoaded(World).playerCoins = 0
        /\ SavedAndLoaded(World).coinsKind = "number"
        /\ SavedAndLoaded(World).movementHistory = <<OAKES_CLASSROOM>>

\* a snapshot written with no activity behind it (by a sensor fix) has been
\* loaded by a fresh page, and the trail restored has one point
C19_TrailOfOnePoint ==
    /\ lastOp = "load"
    /\ NoActivity
    /\ storage.present
    /\ Len(storage.movementHistory) = 1
    /\ movementHistory = <<OAKES_CLASSROOM>>
    /\ playerCoins = 0

(***************************************************************************)
(* C20  A geolocation failure leaves the world unchanged.  The step in     *)
(* which the sensor error callback fires changes none of playerPosition,   *)
(* playerCoins, movementHistory, activeCaches, cacheStates, the rectangles *)
(* on the map and the stored snapshot.                                     *)
(***************************************************************************)
C20_ErrorLeavesWorld ==
    [][(lastOp' = "sensorError" /\ sensorPending' < sensorPending) =>
          UNCHANGED <<playerPosition, playerCoins, coinsKind, movementHistory,
                      activeCaches, cacheStates, layers, storage>>]_vars

\* the error callback has fired in a world away from the starting position,
\* with a coin in the inventory, a dormant cache and a stored snapshot
C20_Witness ==
    /\ lastOp = "sensorError"
    /\ playerPosition # OAKES_CLASSROOM
    /\ HasCoins(World)
    /\ DOMAIN cacheStates \ DOMAIN activeCaches # {}
    /\ storage.present
    /\ storage.playerPosition = [lat |-> playerPosition.lat, lng |-> playerPosition.lng]

(***************************************************************************)
(* C21  Cell keys are stable and reversible.  For every cell with integer  *)
(* indices, negative ones included, getCellFromKey(getCellKey(cell)) has   *)
(* the i and j of cell, and getCellKey(getCellFromKey(k)) = k for every    *)
(* key k that getCellKey has produced; a key is the same for every call    *)
(* on the same (i, j).                                                     *)
(***************************************************************************)
C21_KeysReversible ==
    /\ \A n \in 1..Len(returned) :
          /\ getCellFromKey(returned[n].key).i = returned[n].cell.i
          /\ getCellFromKey(returned[n].key).j = returned[n].cell.j
          /\ getCellKey(getCellFromKey(returned[n].key)) = returned[n].key
    /\ \A n, m \in 1..Len(returned) :
          returned[n].cell = returned[m].cell <=> returned[n].key = returned[m].key

\* a key made for a cell of two negative indices has been parsed back
C21_Witness ==
    \E n, m \in 1..Len(returned) :
        /\ n < m
        /\ returned[n].op = "getCellKey"
        /\ returned[m].op = "getCellFromKey"
        /\ returned[n].cell.i < -9 /\ returned[n].cell.j < 0
        /\ returned[m].key = returned[n].key
        /\ returned[m].cell = returned[n].cell

(***************************************************************************)
(* C22  The persisted snapshot tracks the live state.  After a button      *)
(* move, a sensor fix, a successful collect or deposit, or a confirmed     *)
(* reset, the item in storage is the one saveGameState would write for the *)
(* state in memory, and a page loaded from it shows the player the same    *)
(* world (after a reset: no mementos, no coins, a cleared trail).          *)
(***************************************************************************)
C22_SnapshotTracksState ==
    lastOp \in {"move", "sensor", "collect", "deposit", "reset"} =>
        /\ storage = Snapshot(World)
        /\ SameWorld(World, loadGameState(FreshWorld(storage)))

\* after a confirmed reset the stored item still holds the mementos and the
\* trail of the game that was erased, while memory holds none
C22_ResetLeavesOldSnapshot ==
    /\ lastOp = "reset"
    /\ resets > 0
    /\ storage.present
    /\ storage.cacheStates # {}
    /\ Len(storage.movementHistory) > 0
    /\ Known = {}
    /\ movementHistory = <<>>
    /\ \E e \in storage.cacheStates : CoinsIn(e[1], e[2]) # GeneratedCoins(e[1])

(***************************************************************************)
(* C23  Active and dormant per cell.                                       *)
(***************************************************************************)
\* C23 as stated: no key is at once in activeCaches and in cacheStates
C23_MutuallyExclusive == DOMAIN activeCaches \cap DOMAIN cacheStates = {}

\* C23 amended: restoring a cache from its memento leaves the memento where
\* it is.  In every step in which a dormant key becomes active, the key
\* is still in cacheStates with the memento it had, and the cache made
\* active is the one that memento encodes.
C23_RestoreKeepsMemento ==
    [][\A key \in DOMAIN cacheStates \ DOMAIN activeCaches :
          key \in DOMAIN activeCaches' =>
              /\ key \in DOMAIN cacheStates'
              /\ cacheStates'[key] = cacheStates[key]
              /\ toMomento(activeCaches'[key]) = cacheStates'[key]]_vars

\* a move or a fix has made a cache active again next to the memento it
\* was restored from, while another active cache has never been dormant
C23_Witness ==
    /\ lastOp \in {"move", "sensor"}
    /\ \E key \in DOMAIN activeCaches \cap DOMAIN cacheStates :
           toMomento(activeCaches[key]) = cacheStates[key]
    /\ DOMAIN activeCaches \ DOMAIN cacheStates # {}

(***************************************************************************)
(* C24  The active set matches the window in every quiescent state.  Once  *)
(* the page has started, with or without a saved item, and after every     *)
(* operation, reset included, the keys of activeCaches are the cells       *)
(* within NEIGHBORHOOD_SIZE of the player's cell that have a memento or    *)
(* for which generateCache yields a cache.                                 *)
(***************************************************************************)
C24_WindowInEveryState ==
    /\ \A cell \in CellsAround(playerPosition) :
          getCellKey(cell) \in DOMAIN activeCaches <=> ProducesCache(cell, getCellKey(cell))
    /\ \A key \in DOMAIN activeCaches :
          WithinRadius(getCellFromKey(key), playerPosition)

\* the page has started without a saved item: nothing is active, though a
\* cell of the window generates a cache
C24_EmptyAtStartup ==
    /\ lastOp = "start"
    /\ ~storage.present
    /\ activeCaches = EmptyMap
    /\ layers = <<>>
    /\ \E cell \in CellsAround(playerPosition) : generateCache(cell) # <<>>

\* a confirmed reset has left nothing active around the starting position
C24_EmptyAfterReset ==
    /\ lastOp = "reset"
    /\ resets > 0
    /\ playerPosition = OAKES_CLASSROOM
    /\ activeCaches = EmptyMap
    /\ \E cell \in CellsAround(playerPosition) : generateCache(cell) # <<>>

(***************************************************************************)
(* C25  The movement trail records every position change.  After a         *)
(* position update by a direction button or by a geolocation reading the   *)
(* new playerPosition has been appended to movementHistory: in every       *)
(* state with a non-empty trail the last entry is the playerPosition.      *)
(***************************************************************************)
C25_TrailEndsAtPlayer ==
    Len(movementHistory) > 0 => movementHistory[Len(movementHistory)] = playerPosition

\* a sensor fix has moved the player, and the snapshot with him, while the
\* trail still ends where it did
C25_FixNotOnTrail ==
    /\ lastOp = "sensor"
    /\ Len(movementHistory) > 0
    /\ movementHistory[Len(movementHistory)] # playerPosition
    /\ \A n \in 1..Len(movementHistory) : movementHistory[n] # playerPosition
    /\ storage.present
    /\ storage.playerPosition = [lat |-> playerPosition.lat, lng |-> playerPosition.lng]

(***************************************************************************)
(* C26  Coins are handled as a stack.  In every reachable world, for the   *)
(* cache behind every popup: if the cache has coins, collectCoin leaves    *)
(* the list without its last element and playerCoins one higher; if the    *)
(* player has coins, depositCoin leaves the list with one coin more at its *)
(* end and playerCoins one lower; the other coins keep their places.       *)
(***************************************************************************)
CoinsBehind(w, n) == CacheOf(w, w.layers[n]).coins

C26_CoinsAreAStack ==
    \A n \in 1..Len(layers) :
        /\ Len(CoinsBehind(World, n)) > 0 =>
              /\ Len(CoinsBehind(collectCoin(World, n), n)) = Len(CoinsBehind(World, n)) - 1
              /\ \A k \in 1..(Len(CoinsBehind(World, n)) - 1) :
                    CoinsBehind(collectCoin(World, n), n)[k] = CoinsBehind(World, n)[k]
              /\ collectCoin(World, n).coinsKind = "number"
              /\ collectCoin(World, n).playerCoins = playerCoins + 1
        /\ HasCoins(World) =>
              /\ Len(CoinsBehind(depositCoin(World, n), n)) = Len(CoinsBehind(World, n)) + 1
              /\ \A k \in 1..Len(CoinsBehind(World, n)) :
                    CoinsBehind(depositCoin(World, n), n)[k] = CoinsBehind(World, n)[k]
              /\ depositCoin(World, n).coinsKind = "number"
              /\ depositCoin(World, n).playerCoins = playerCoins - 1

\* a deposit has put a second coin on top of a cache's own coin, and
\* another cache has been emptied by a collect
C26_Witness ==
    /\ lastOp = "deposit"
    /\ \E n \in 1..Len(layers) : Len(CoinsBehind(World, n)) = 0
    /\ \E n \in 1..Len(layers) :
           /\ Len(CoinsBehind(World, n)) = 2
           /\ CoinsBehind(World, n)[1] # CoinsBehind(World, n)[2]

(***************************************************************************)
(* C27  Frame of the mutating operations.  In every reachable world,       *)
(* collectCoin and depositCoin through any popup leave playerPosition, the *)
(* trail, every memento of cacheStates, the set of active keys and every   *)
(* active cache but the popup's own as they were; a button move or a       *)
(* sensor fix leaves playerCoins as it was and every known cell known,     *)
(* with the coin content it had, active or dormant.                        *)
(***************************************************************************)
\* after differs from w at most in playerCoins, the stored item and the
\* coins of the cache behind layer n
OnlyCacheChanged(w, n, after) ==
    /\ after.playerPosition = w.playerPosition
    /\ after.movementHistory = w.movementHistory
    /\ after.states = w.states
    /\ DOMAIN after.active = DOMAIN w.active
    /\ \A key \in DOMAIN w.active :
          (~w.layers[n].live \/ key # w.layers[n].key) => after.active[key] = w.active[key]
    /\ Len(after.layers) = Len(w.layers)
    /\ \A m \in 1..Len(w.layers) : m # n => after.layers[m] = w.layers[m]
    /\ CacheOf(after, after.layers[n]).cell = CacheOf(w, w.layers[n]).cell

\* after has the inventory of w and every known cell of w with its content
ContentKept(w, after) ==
    /\ after.playerCoins = w.playerCoins
    /\ after.coinsKind = w.coinsKind
    /\ \A key \in DOMAIN w.active \cup DOMAIN w.states :
          /\ key \in DOMAIN after.active \cup DOMAIN after.states
          /\ ContentIn(after, key) = ContentIn(w, key)

C27_Frame ==
    /\ \A n \in 1..Len(layers) :
          /\ OnlyCacheChanged(World, n, collectCoin(World, n))
          /\ OnlyCacheChanged(World, n, depositCoin(World, n))
    /\ \A d \in Directions :
          ContentKept(World, updatePlayerPosition(World, d[1], d[2], FALSE))
    /\ \A fix \in SensorFixes : ContentKept(World, OnPosition(World, fix))

\* a coin has just changed hands while two caches are active, one of them
\* next to an older memento of itself, after a button move
C27_Witness ==
    /\ lastOp \in {"collect", "deposit"}
    /\ Cardinality(DOMAIN activeCaches) = 2
    /\ DOMAIN cacheStates # {}
    /\ Len(movementHistory) > 1
    /\ \E key \in DOMAIN activeCaches : activeCaches[key].coins # GeneratedCoins(key)

(***************************************************************************)
(* C28  Shape of every coin list.  In every state reached from a fresh     *)
(* session by moves, collects, deposits, saves and loads of the program's  *)
(* own snapshots, each cache, whether active, behind a rectangle or        *)
(* decoded from a memento of cacheStates, has coins[k].serial = k for      *)
(* every index k (counted from 0) and every coin's cell equal to the       *)
(* cache's own cell.                                                       *)
(***************************************************************************)
WellShaped(coins, cell) ==
    \A k \in 1..Len(coins) : coins[k].serial = k - 1 /\ coins[k].cell = cell

C28_CoinListShape ==
    /\ \A key \in DOMAIN activeCaches :
          WellShaped(activeCaches[key].coins, getCellFromKey(key))
    /\ \A key \in DOMAIN cacheStates :
          WellShaped(CoinsIn(key, cacheStates[key]), getCellFromKey(key))
    /\ \A n \in 1..Len(layers) :
          WellShaped(CoinsBehind(World, n), getCellFromKey(layers[n].key))

\* a page load has restored a cache holding its own coin and one that was
\* collected from another cache, which is known and empty
C28_Witness ==
    /\ lastOp = "load"
    /\ \E key \in DOMAIN activeCaches :
           /\ Len(activeCaches[key].coins) = 2
           /\ activeCaches[key].coins = CoinsIn(key, cacheStates[key])
    /\ \E key \in Known : Len(ContentIn(World, key)) = 0

====
